---------------------------- MODULE Spec2Model ----------------------------
(***************************************************************************)
(* mp3srv: a one-file HTTP server (src/mp3.py) that lists and serves the   *)
(* *.mp3 files of a directory, plus the playlist logic of the web player   *)
(* it embeds.  Strings are sequences of one-character strings, so that     *)
(* splitting, percent-decoding, lower-casing and path normalisation are    *)
(* computed the way the code computes them.                                *)
(***************************************************************************)
EXTENDS Integers, Sequences, FiniteSets, TLC

(***************************************************************************)
(* Bounds of the model.                                                    *)
(***************************************************************************)
\* at most this many entries exist in the served root at once
MaxFiles == 3

(***************************************************************************)
(* Characters and strings.                                                 *)
(***************************************************************************)
LowerLetters == <<"a","b","c","d","e","f","g","h","i","j","k","l","m",
                  "n","o","p","q","r","s","t","u","v","w","x","y","z">>
UpperLetters == <<"A","B","C","D","E","F","G","H","I","J","K","L","M",
                  "N","O","P","Q","R","S","T","U","V","W","X","Y","Z">>
Digits == <<"0","1","2","3","4","5","6","7","8","9">>
\* the other ASCII characters of the model, with their codes
Punct == <<[ch |-> " ", code |-> 32], [ch |-> "\"", code |-> 34],
           [ch |-> "\\", code |-> 92], [ch |-> "#", code |-> 35],
           [ch |-> "%", code |-> 37], [ch |-> ".", code |-> 46],
           [ch |-> "/", code |-> 47], [ch |-> "=", code |-> 61],
           [ch |-> "?", code |-> 63], [ch |-> "_", code |-> 95]>>

IndexIn(ch, s) == CHOOSE i \in 1..Len(s) : s[i] = ch
Occurs(ch, s) == \E i \in 1..Len(s) : s[i] = ch

\* ord(ch) for the characters of the model
Ord(ch) ==
  IF Occurs(ch, LowerLetters) THEN 96 + IndexIn(ch, LowerLetters)
  ELSE IF Occurs(ch, UpperLetters) THEN 64 + IndexIn(ch, UpperLetters)
  ELSE IF Occurs(ch, Digits) THEN 47 + IndexIn(ch, Digits)
  ELSE Punct[CHOOSE i \in 1..Len(Punct) : Punct[i].ch = ch].code

\* chr(code); a byte outside the model's alphabet decodes to one opaque character
Chr(code) ==
  IF code \in 97..122 THEN LowerLetters[code - 96]
  ELSE IF code \in 65..90 THEN UpperLetters[code - 64]
  ELSE IF code \in 48..57 THEN Digits[code - 47]
  ELSE IF \E i \in 1..Len(Punct) : Punct[i].code = code
       THEN Punct[CHOOSE i \in 1..Len(Punct) : Punct[i].code = code].ch
  ELSE "<other>"

\* the value of a hexadecimal digit, -1 for any other character
HexVal(ch) ==
  IF Occurs(ch, Digits) THEN IndexIn(ch, Digits) - 1
  ELSE IF Occurs(ch, SubSeq(LowerLetters, 1, 6)) THEN 9 + IndexIn(ch, LowerLetters)
  ELSE IF Occurs(ch, SubSeq(UpperLetters, 1, 6)) THEN 9 + IndexIn(ch, UpperLetters)
  ELSE -1

HexDigit(v) == IF v < 10 THEN Digits[v + 1] ELSE UpperLetters[v - 9]

\* str.lower()
LowerChar(ch) ==
  IF Occurs(ch, UpperLetters) THEN LowerLetters[IndexIn(ch, UpperLetters)] ELSE ch

Lower(s) == [i \in 1..Len(s) |-> LowerChar(s[i])]

\* str.endswith(suffix)
EndsWith(s, suffix) ==
  /\ Len(s) >= Len(suffix)
  /\ SubSeq(s, Len(s) - Len(suffix) + 1, Len(s)) = suffix

\* str.startswith(prefix)
StartsWith(s, prefix) ==
  /\ Len(s) >= Len(prefix)
  /\ SubSeq(s, 1, Len(prefix)) = prefix

\* s.split(ch, 1)[0]: the part of s before the first ch, s itself when there is none
SplitFirst(s, ch) ==
  IF Occurs(ch, s)
  THEN SubSeq(s, 1, (CHOOSE i \in 1..Len(s) :
                        s[i] = ch /\ \A j \in 1..(i - 1) : s[j] # ch) - 1)
  ELSE s

\* s.split(ch): the sequence of the pieces of s between occurrences of ch
RECURSIVE Split(_, _)
Split(s, ch) ==
  IF ~Occurs(ch, s) THEN <<s>>
  ELSE LET i == CHOOSE k \in 1..Len(s) : s[k] = ch /\ \A j \in 1..(k - 1) : s[j] # ch
       IN  <<SubSeq(s, 1, i - 1)>> \o Split(SubSeq(s, i + 1, Len(s)), ch)

\* ch.join(parts)
RECURSIVE Join(_, _)
Join(parts, ch) ==
  IF parts = <<>> THEN <<>>
  ELSE IF Len(parts) = 1 THEN parts[1]
  ELSE parts[1] \o <<ch>> \o Join(Tail(parts), ch)

\* urllib.parse.unquote: %XX with two hexadecimal digits is replaced by the
\* character of that code, every other character is kept
RECURSIVE Unquote(_)
Unquote(s) ==
  IF s = <<>> THEN <<>>
  ELSE IF /\ s[1] = "%"
          /\ Len(s) >= 3
          /\ HexVal(s[2]) >= 0
          /\ HexVal(s[3]) >= 0
       THEN <<Chr(16 * HexVal(s[2]) + HexVal(s[3]))>> \o Unquote(SubSeq(s, 4, Len(s)))
  ELSE <<s[1]>> \o Unquote(Tail(s))

\* the characters encodeURIComponent leaves alone (of the model's alphabet)
Unreserved(ch) ==
  \/ Occurs(ch, LowerLetters)
  \/ Occurs(ch, UpperLetters)
  \/ Occurs(ch, Digits)
  \/ ch \in {".", "_"}

\* encodeURIComponent
RECURSIVE EncodeURIComponent(_)
EncodeURIComponent(s) ==
  IF s = <<>> THEN <<>>
  ELSE (IF Unreserved(s[1]) THEN <<s[1]>>
        ELSE <<"%", HexDigit(Ord(s[1]) \div 16), HexDigit(Ord(s[1]) % 16)>>)
       \o EncodeURIComponent(Tail(s))


(***************************************************************************)
(* Names, paths and the file system.                                       *)
(***************************************************************************)
A_MP3 == <<"a", ".", "m", "p", "3">>
B_MP3 == <<"b", ".", "M", "P", "3">>
C_TXT == <<"c", ".", "t", "x", "t">>
\* a directory whose name ends in .mp3
D_MP3 == <<"d", ".", "m", "p", "3">>
\* a file name holding '?', '#', '%' and a double quote
Q_MP3 == <<"?", "#", "%", "4", "1", "\"", ".", "m", "p", "3">>
\* a file of the root with the name of the playlist route
PLAYLIST_JSON == <<"p", "l", "a", "y", "l", "i", "s", "t", ".", "j", "s", "o", "n">>
\* a name that exists beside the root (outside it) and may exist inside it too
S_MP3 == <<"s", ".", "m", "p", "3">>

\* the entries that may exist directly inside the served root
Pool == {A_MP3, B_MP3, C_TXT, D_MP3, Q_MP3, PLAYLIST_JSON, S_MP3}

KindOf(name) == IF name = D_MP3 THEN "dir" ELSE "file"

\* the bytes of the file `name` of the root
ContentOf(name) == <<Ord(name[1]), Len(name), 7>>
\* the bytes of /s.mp3, the file beside the root
OutsideContent == <<0, 0, 0>>

\* the directory contents the model starts from
RootConfigs == {S \in SUBSET Pool : Cardinality(S) <= MaxFiles}

VARIABLES
  pc,          \* where the script is: "check", "chdir", "bind", "serving", "exited"
  rootArg,     \* what the root argument names: "dir", "file" or "missing"
  portFree,    \* whether the port can be bound
  cwd,         \* the working directory of the process: "launch" or "ROOT"
  listening,   \* whether the listening socket exists
  exitStatus,  \* -1 while running, else the exit status
  stderr,      \* what the script wrote to stderr when it exited
  present,     \* the entries of the served root
  rootState,   \* "ok", "noaccess" (no permission) or "removed"
  backlog,     \* connections waiting to be accepted, oldest first
  conn,        \* per client: the connection's state, request and response
  hadFailure,  \* whether an earlier request ended in an exception
  list,        \* player: the playlist
  idx,         \* player: the current index
  fetched,     \* player: whether the playlist fetch has resolved
  nowText,     \* player: the text of the 'now' element
  audioSrc,    \* player: the src of the audio element
  paused,      \* player: whether the audio element is paused
  ctxState,    \* player: "undefined", "suspended" or "running"
  lastOp       \* player: the last call that set idx, and idx before it

serverVars == <<pc, rootArg, portFree, cwd, listening, exitStatus, stderr,
                present, rootState, backlog, conn, hadFailure>>
playerVars == <<list, idx, fetched, nowText, audioSrc, paused, ctxState, lastOp>>
vars == <<serverVars, playerVars>>

\* ROOT (line 15) is /srv
ROOT == << <<"s", "r", "v">> >>

\* what the kernel finds at an absolute path given as its components; '.' and
\* '..' are resolved the way the kernel resolves them
RECURSIVE Canonical(_, _)
Canonical(comps, acc) ==
  IF comps = <<>> THEN acc
  ELSE IF comps[1] = <<".">> \/ comps[1] = <<>> THEN Canonical(Tail(comps), acc)
  ELSE IF comps[1] = <<".", ".">>
       THEN Canonical(Tail(comps), IF acc = <<>> THEN acc ELSE SubSeq(acc, 1, Len(acc) - 1))
  ELSE Canonical(Tail(comps), Append(acc, comps[1]))

Stat(comps) ==
  LET p == Canonical(comps, <<>>) IN
  IF p = <<>> THEN [kind |-> "dir", content |-> <<>>]
  ELSE IF p = <<S_MP3>> THEN [kind |-> "file", content |-> OutsideContent]
  ELSE IF p = ROOT
       THEN [kind |-> IF rootState = "removed" THEN "absent" ELSE "dir", content |-> <<>>]
  ELSE IF /\ Len(p) = 2
          /\ p[1] = ROOT[1]
          /\ rootState = "ok"
          /\ p[2] \in present
       THEN [kind |-> KindOf(p[2]),
             content |-> IF KindOf(p[2]) = "file" THEN ContentOf(p[2]) ELSE <<>>]
  ELSE [kind |-> "absent", content |-> <<>>]

\* posixpath.normpath
RECURSIVE NormComps(_, _, _)
NormComps(comps, new, initial) ==
  IF comps = <<>> THEN new
  ELSE LET comp == comps[1] IN
       IF comp = <<>> \/ comp = <<".">> THEN NormComps(Tail(comps), new, initial)
       ELSE IF \/ comp # <<".", ".">>
               \/ (initial = 0 /\ new = <<>>)
               \/ (new # <<>> /\ new[Len(new)] = <<".", ".">>)
            THEN NormComps(Tail(comps), Append(new, comp), initial)
       ELSE IF new # <<>>
            THEN NormComps(Tail(comps), SubSeq(new, 1, Len(new) - 1), initial)
       ELSE NormComps(Tail(comps), new, initial)

Normpath(path) ==
  IF path = <<>> THEN <<".">>
  ELSE LET initial == IF ~StartsWith(path, <<"/">>) THEN 0
                      ELSE IF StartsWith(path, <<"/", "/">>)
                              /\ ~StartsWith(path, <<"/", "/", "/">>) THEN 2
                      ELSE 1
           joined == Join(NormComps(Split(path, "/"), <<>>, initial), "/")
           out == [i \in 1..initial |-> "/"] \o joined
       IN  IF out = <<>> THEN <<".">> ELSE out


(***************************************************************************)
(* The request handler: Handler.do_GET and the static file responder it    *)
(* inherits.                                                               *)
(***************************************************************************)
AUDIO_EXT == <<".", "m", "p", "3">>

\* the document served at / (one opaque token: its text never varies)
PLAYER_HTML == <<"<!doctype html>...</html>">>

PLAYLIST_PATH == <<"/">> \o PLAYLIST_JSON
ROOT_PATH == <<"/">>

\* the directory '.' and relative paths resolve in, for a working directory
Directory(dir) == IF dir = "ROOT" THEN ROOT ELSE <<>>

\* os.getcwd() of the process fails once its working directory was removed
GetcwdFails == cwd = "ROOT" /\ rootState = "removed"

\* the names directly inside the directory at these components; {} with
\* ok = FALSE when os.listdir raises
ListDir(comps) ==
  LET p == Canonical(comps, <<>>) IN
  IF p = <<>> THEN [ok |-> TRUE, names |-> {S_MP3, ROOT[1]}]
  ELSE IF p = ROOT
       THEN IF rootState = "ok" THEN [ok |-> TRUE, names |-> present]
            ELSE [ok |-> FALSE, names |-> {}]
  ELSE IF Stat(p).kind = "dir" THEN [ok |-> TRUE, names |-> {}]
  ELSE [ok |-> FALSE, names |-> {}]

\* every order os.listdir may return the names of a set in
RECURSIVE Orders(_)
Orders(S) ==
  IF S = {} THEN {<<>>}
  ELSE UNION {{<<x>> \o rest : rest \in Orders(S \ {x})} : x \in S}

\* the filter of line 29 without the lower(): a suffix test that minds case
IsAudioCaseSensitive(f) == EndsWith(f, AUDIO_EXT)

\* line 29: f.lower().endswith(AUDIO_EXT)
IsAudio(f) == EndsWith(Lower(f), AUDIO_EXT)

\* line 29: the list comprehension over one listing
AudioFiles(listing) == SelectSeq(listing, IsAudio)

\* json.dumps of one string
RECURSIVE JsonEscape(_)
JsonEscape(str) ==
  IF str = <<>> THEN <<>>
  ELSE (IF str[1] = "\"" \/ str[1] = "\\" THEN <<"\\", str[1]>> ELSE <<str[1]>>)
       \o JsonEscape(Tail(str))

RECURSIVE JsonItems(_)
JsonItems(strs) ==
  IF strs = <<>> THEN <<>>
  ELSE <<"\"">> \o JsonEscape(strs[1]) \o <<"\"">>
       \o (IF Len(strs) > 1 THEN <<",", " ">> ELSE <<>>)
       \o JsonItems(Tail(strs))

\* json.dumps of a list of strings
JsonDumps(strs) == <<"[">> \o JsonItems(strs) \o <<"]">>

NoBody == [kind |-> "none", data |-> <<>>]

\* the outcome of a handler that raised: nothing was written to the client
Raised(h) == [handler |-> h, status |-> 0, ctype |-> "", body |-> NoBody]

\* lines 37-41
SendHtml(html) ==
  [handler |-> "page", status |-> 200, ctype |-> "text/html; charset=utf-8",
   body |-> [kind |-> "html", data |-> html]]

\* lines 43-47
SendJson(obj) ==
  [handler |-> "playlist", status |-> 200, ctype |-> "application/json",
   body |-> [kind |-> "json", data |-> JsonDumps(obj)]]

\* lines 28-31: one response per order the listing may come in; the exception of
\* os.listdir is not caught
PlaylistEndpoint(dir) ==
  LET l == ListDir(Directory(dir)) IN
  IF l.ok THEN {SendJson(AudioFiles(listing)) : listing \in Orders(l.names)}
  ELSE {Raised("playlist")}

\* the path of a request target as urlsplit gives it: what precedes '#' and '?'
UrlPath(target) == SplitFirst(SplitFirst(target, "#"), "?")

\* the words translate_path keeps: not empty, not '.', not '..'
KeepWord(word) == word # <<>> /\ word # <<".">> /\ word # <<".", ".">>

\* a translation that joins the decoded request path to the directory as it is,
\* without normpath and without dropping '.' and '..'
TranslatePathNaive(target, dir) ==
  LET raw == SplitFirst(SplitFirst(target, "?"), "#")
  IN  [comps |-> Directory(dir) \o Split(Unquote(raw), "/"),
       trailing |-> EndsWith(raw, <<"/">>)]

\* SimpleHTTPRequestHandler.translate_path: the components of the file system
\* path, and whether the request path ended in '/'
TranslatePath(target, dir) ==
  LET raw == SplitFirst(SplitFirst(target, "?"), "#")
      words == Split(Normpath(Unquote(raw)), "/")
  IN  [comps |-> Directory(dir) \o SelectSeq(words, KeepWord),
       trailing |-> EndsWith(raw, <<"/">>)]

\* SimpleHTTPRequestHandler.guess_type, for the extensions of the model
GuessType(name) ==
  IF EndsWith(Lower(name), AUDIO_EXT) THEN "audio/mpeg"
  ELSE IF EndsWith(Lower(name), <<".", "t", "x", "t">>) THEN "text/plain"
  ELSE IF EndsWith(Lower(name), <<".", "j", "s", "o", "n">>) THEN "application/json"
  ELSE "application/octet-stream"

StaticResponse(status, ctype, body) ==
  [handler |-> "static", status |-> status, ctype |-> ctype, body |-> body]

NotFound == StaticResponse(404, "text/html;charset=utf-8", [kind |-> "error", data |-> <<>>])

\* line 35: SimpleHTTPRequestHandler.do_GET (send_head, then the file is copied
\* whole; no request header is consulted for a byte range)
StaticFileResponder(target, dir) ==
  LET tp == TranslatePath(target, dir)
      st == Stat(tp.comps)
  IN  IF st.kind = "dir"
      THEN IF ~EndsWith(UrlPath(target), <<"/">>)
           THEN StaticResponse(301, "", [kind |-> "redirect", data |-> UrlPath(target) \o <<"/">>])
           ELSE IF ListDir(tp.comps).ok
                THEN StaticResponse(200, "text/html; charset=utf-8",
                                    [kind |-> "listing", data |-> tp.comps])
                ELSE NotFound
      ELSE IF tp.trailing THEN NotFound
      ELSE IF st.kind = "file"
           THEN StaticResponse(200, GuessType(tp.comps[Len(tp.comps)]),
                               [kind |-> "bytes", data |-> st.content])
      ELSE NotFound

\* the routing path of line 27 without the unquote
RequestPathUndecoded(target) == SplitFirst(target, "?")

\* line 27: the path the dispatcher routes on
RequestPath(target) == Unquote(SplitFirst(target, "?"))

\* lines 26-35: the responses do_GET may produce for a request target
DoGet(target, dir) ==
  LET path == RequestPath(target) IN
  IF path = PLAYLIST_PATH THEN PlaylistEndpoint(dir)
  ELSE IF path = ROOT_PATH THEN {SendHtml(PLAYER_HTML)}
  ELSE {StaticFileResponder(target, dir)}


(***************************************************************************)
(* Requests.                                                               *)
(***************************************************************************)
NoRange == [lo |-> -1, hi |-> -1]

\* the URL the player asks for a playlist entry at (load, line 164)
LoadTarget(name) == <<"/">> \o EncodeURIComponent(name)

T_PAGE == <<"/">>
T_PAGE_QUERY == <<"/", "?", "q">>
T_PLAYLIST == PLAYLIST_PATH
T_PLAYLIST_QUERY == PLAYLIST_PATH \o <<"?", "x">>
T_PLAYLIST_ENCODED == <<"/", "%", "7", "0">> \o Tail(PLAYLIST_JSON)
T_PLAYLIST_ENCODED_QUERY == PLAYLIST_PATH \o <<"%", "3", "F", "x">>
T_UP == <<"/", ".", ".", "/">> \o S_MP3
T_UP_ENCODED == <<"/", "%", "2", "e", "%", "2", "E", "/">> \o S_MP3
T_UP_SLASH_ENCODED == <<"/", ".", ".", "%", "2", "f">> \o S_MP3
T_UP_RELATIVE == <<".", ".", "/">> \o S_MP3
T_UP_DIR == <<"/", ".", ".", "/">>

PageTargets == {T_PAGE, T_PAGE_QUERY}
PlaylistTargets == {T_PLAYLIST, T_PLAYLIST_QUERY, T_PLAYLIST_ENCODED}
TraversalTargets == {T_UP, T_UP_ENCODED, T_UP_SLASH_ENCODED, T_UP_RELATIVE}
EntryTargets == {LoadTarget(n) : n \in Pool \ {PLAYLIST_JSON}}

Targets ==
  PageTargets \cup PlaylistTargets \cup TraversalTargets \cup EntryTargets
  \cup {T_PLAYLIST_ENCODED_QUERY, T_UP_DIR}

\* a request: its target and its Range header (bytes lo-hi, NoRange without one)
Requests ==
  {[target |-> t, range |-> NoRange] : t \in Targets}
  \cup {[target |-> LoadTarget(A_MP3), range |-> [lo |-> 1, hi |-> 1]]}

\* the requests of the two-client runs
FewRequests ==
  {[target |-> t, range |-> NoRange] : t \in {T_PAGE, T_PLAYLIST, LoadTarget(A_MP3)}}

Clients == {"c1", "c2"}

NoRequest == [target |-> <<>>, range |-> NoRange]
IdleConn == [st |-> "idle", req |-> NoRequest, resp |-> Raised("none"),
             end |-> "", stale |-> FALSE]

(***************************************************************************)
(* The script: start-up (lines 15-22), the server loop (lines 179-185).    *)
(***************************************************************************)
\* the test of line 19 as os.path.exists: a plain file passes it
RootExists == rootArg # "missing" /\ rootState # "removed"

\* line 19: os.path.isdir(ROOT)
RootIsDir == rootArg = "dir" /\ rootState # "removed"

\* lines 19-20: sys.exit with a message exits with status 1
CheckRoot ==
  /\ pc = "check"
  /\ IF RootIsDir
     THEN /\ pc' = "chdir"
          /\ UNCHANGED <<exitStatus, stderr>>
     ELSE /\ pc' = "exited"
          /\ exitStatus' = 1
          /\ stderr' = "Error: ROOT is not a directory"
  /\ UNCHANGED <<rootArg, portFree, cwd, listening, present, rootState,
                 backlog, conn, hadFailure, playerVars>>

\* line 22: os.chdir(ROOT); an OSError ends the script with a traceback
Chdir ==
  /\ pc = "chdir"
  /\ IF rootArg = "dir" /\ rootState = "ok"
     THEN /\ pc' = "bind"
          /\ cwd' = "ROOT"
          /\ UNCHANGED <<exitStatus, stderr>>
     ELSE /\ pc' = "exited"
          /\ exitStatus' = 1
          /\ stderr' = "Traceback"
          /\ UNCHANGED cwd
  /\ UNCHANGED <<rootArg, portFree, listening, present, rootState,
                 backlog, conn, hadFailure, playerVars>>

\* line 180: TCPServer(("", PORT), Handler) binds and listens, or raises OSError
Bind ==
  /\ pc = "bind"
  /\ IF portFree
     THEN /\ pc' = "serving"
          /\ listening' = TRUE
          /\ UNCHANGED <<exitStatus, stderr>>
     ELSE /\ pc' = "exited"
          /\ exitStatus' = 1
          /\ stderr' = "Traceback"
          /\ UNCHANGED listening
  /\ UNCHANGED <<rootArg, portFree, cwd, present, rootState,
                 backlog, conn, hadFailure, playerVars>>

\* lines 184-185: KeyboardInterrupt leaves serve_forever; the with block closes
\* the socket and the script ends
Interrupt ==
  /\ pc = "serving"
  /\ pc' = "exited"
  /\ exitStatus' = 0
  /\ listening' = FALSE
  /\ backlog' = <<>>
  /\ conn' = [c \in Clients |-> IdleConn]
  /\ UNCHANGED <<rootArg, portFree, cwd, stderr, present, rootState,
                 hadFailure, playerVars>>

\* a client connects and sends its request; the connection waits in the backlog
Connect(c, r) ==
  /\ listening
  /\ conn[c].st = "idle"
  /\ conn' = [conn EXCEPT ![c] = [IdleConn EXCEPT !.st = "queued", !.req = r]]
  /\ backlog' = Append(backlog, c)
  /\ UNCHANGED <<pc, rootArg, portFree, cwd, listening, exitStatus, stderr,
                 present, rootState, hadFailure, playerVars>>

\* a server that hands every connection to a thread of its own
ServerNeverBusy == FALSE

\* line 183: serve_forever handles a connection inside its own loop, so it
\* accepts the next one only after the handler of the last one returned
ServerBusy == \E c \in Clients : conn[c].st \in {"accepted", "writing"}

\* a server loop that lets the exception of a handler end the script
HandlerExceptionKills == "exited"

\* line 183: where the script is after a handler raised an Exception
\* (BaseServer.handle_error prints a traceback and the loop goes on)
AfterHandlerException == "serving"

\* the connection of a request whose handler raised: closed, nothing sent
Failed(k) == [k EXCEPT !.st = "done", !.resp = Raised(k.resp.handler), !.end = "no response"]

\* line 183: get_request, then Handler.__init__, which reads os.getcwd()
Accept(c) ==
  /\ pc = "serving"
  /\ backlog # <<>>
  /\ Head(backlog) = c
  /\ ~ServerBusy
  /\ backlog' = Tail(backlog)
  /\ IF GetcwdFails
     THEN /\ conn' = [conn EXCEPT ![c] = Failed(@)]
          /\ hadFailure' = TRUE
          /\ pc' = AfterHandlerException
     ELSE /\ conn' = [conn EXCEPT ![c].st = "accepted"]
          /\ UNCHANGED <<hadFailure, pc>>
  /\ UNCHANGED <<rootArg, portFree, cwd, listening, exitStatus, stderr,
                 present, rootState, playerVars>>

\* lines 26-35: do_GET for the accepted request
HandleRequest(c) ==
  /\ pc = "serving"
  /\ conn[c].st = "accepted"
  /\ \E resp \in DoGet(conn[c].req.target, cwd) :
       IF resp.status = 0
       THEN /\ conn' = [conn EXCEPT ![c] = Failed([@ EXCEPT !.resp = resp])]
            /\ hadFailure' = TRUE
            /\ pc' = AfterHandlerException
       ELSE /\ conn' = [conn EXCEPT ![c].st = "writing", ![c].resp = resp]
            /\ UNCHANGED <<hadFailure, pc>>
  /\ UNCHANGED <<rootArg, portFree, cwd, listening, exitStatus, stderr,
                 present, rootState, backlog, playerVars>>

\* lines 41, 47, 35: the client took the whole response; the handler returns
FinishWrite(c) ==
  /\ pc = "serving"
  /\ conn[c].st = "writing"
  /\ conn' = [conn EXCEPT ![c].st = "done", ![c].end = "delivered"]
  /\ UNCHANGED <<pc, rootArg, portFree, cwd, listening, exitStatus, stderr,
                 present, rootState, backlog, hadFailure, playerVars>>

\* lines 41, 47, 35: the client went away mid-response; wfile.write raises
Disconnect(c) ==
  /\ pc = "serving"
  /\ conn[c].st = "writing"
  /\ conn' = [conn EXCEPT ![c].st = "done", ![c].end = "aborted"]
  /\ hadFailure' = TRUE
  /\ pc' = AfterHandlerException
  /\ UNCHANGED <<rootArg, portFree, cwd, listening, exitStatus, stderr,
                 present, rootState, backlog, playerVars>>

\* the client is done with the outcome of its request
Close(c) ==
  /\ conn[c].st = "done"
  /\ conn' = [conn EXCEPT ![c] = IdleConn]
  /\ UNCHANGED <<pc, rootArg, portFree, cwd, listening, exitStatus, stderr,
                 present, rootState, backlog, hadFailure, playerVars>>

(***************************************************************************)
(* The environment: the served root changes under the running server.      *)
(***************************************************************************)
\* responses computed before a change of the file system are marked
Outdated == [c \in Clients |->
               IF conn[c].st \in {"writing", "done"}
               THEN [conn[c] EXCEPT !.stale = TRUE] ELSE conn[c]]

EnvCanAct == rootArg = "dir" /\ rootState # "removed" /\ pc # "exited"

CreateEntry(n) ==
  /\ EnvCanAct
  /\ n \notin present
  /\ Cardinality(present) < MaxFiles
  /\ present' = present \cup {n}
  /\ conn' = Outdated
  /\ UNCHANGED <<pc, rootArg, portFree, cwd, listening, exitStatus, stderr,
                 rootState, backlog, hadFailure, playerVars>>

RemoveEntry(n) ==
  /\ EnvCanAct
  /\ n \in present
  /\ present' = present \ {n}
  /\ conn' = Outdated
  /\ UNCHANGED <<pc, rootArg, portFree, cwd, listening, exitStatus, stderr,
                 rootState, backlog, hadFailure, playerVars>>

\* the permissions of the root are taken away, or given back
Chmod ==
  /\ EnvCanAct
  /\ rootState' = IF rootState = "ok" THEN "noaccess" ELSE "ok"
  /\ conn' = Outdated
  /\ UNCHANGED <<pc, rootArg, portFree, cwd, listening, exitStatus, stderr,
                 present, backlog, hadFailure, playerVars>>

\* the root directory is removed, with what it held
RemoveRoot ==
  /\ EnvCanAct
  /\ rootState' = "removed"
  /\ present' = {}
  /\ conn' = Outdated
  /\ UNCHANGED <<pc, rootArg, portFree, cwd, listening, exitStatus, stderr,
                 backlog, hadFailure, playerVars>>


(***************************************************************************)
(* The player script of the embedded page (lines 85-95 and 161-173).       *)
(***************************************************************************)
\* a JavaScript number: an integer or NaN
Num(v) == [nan |-> FALSE, val |-> v]
NaN == [nan |-> TRUE, val |-> 0]

\* a + b
JsAdd(a, b) == IF a.nan \/ b.nan THEN NaN ELSE Num(a.val + b.val)

\* a % b: NaN for b = 0, else the remainder with the sign of a
JsMod(a, b) ==
  IF a.nan \/ b.nan \/ b.val = 0 THEN NaN
  ELSE IF a.val >= 0 THEN Num(a.val % b.val)
  ELSE Num(-((-a.val) % b.val))

UNDEFINED == <<"u", "n", "d", "e", "f", "i", "n", "e", "d">>

\* list[i]: undefined outside the list
ListAt(l, i) ==
  IF ~i.nan /\ i.val \in 0..(Len(l) - 1) THEN l[i.val + 1] ELSE UNDEFINED

\* line 90: r.json() of a JSON array of strings
RECURSIVE JsonParseItems(_, _, _, _)
JsonParseItems(rest, cur, inStr, acc) ==
  IF rest = <<>> THEN acc
  ELSE IF ~inStr
       THEN JsonParseItems(Tail(rest), <<>>, rest[1] = "\"", acc)
  ELSE IF rest[1] = "\\"
       THEN JsonParseItems(SubSeq(rest, 3, Len(rest)), Append(cur, rest[2]), TRUE, acc)
  ELSE IF rest[1] = "\""
       THEN JsonParseItems(Tail(rest), <<>>, FALSE, Append(acc, cur))
  ELSE JsonParseItems(Tail(rest), Append(cur, rest[1]), TRUE, acc)

JsonParse(text) == JsonParseItems(text, <<>>, FALSE, <<>>)

\* line 162 without the '+ list.length'
LoadIndexNoWrap(i, l) == JsMod(i, Num(Len(l)))

\* line 162: the index load(i) moves to
LoadIndex(i, l) == JsMod(JsAdd(i, Num(Len(l))), Num(Len(l)))

\* lines 161-166: load(i); a.play() may be refused by the browser
Load(i) ==
  /\ idx' = LoadIndex(i, list')
  /\ nowText' = [msg |-> "Now playing: ", track |-> ListAt(list', idx')]
  /\ audioSrc' = EncodeURIComponent(ListAt(list', idx'))
  /\ paused' \in BOOLEAN

\* lines 91-95: the playlist fetch resolves with the array of a playlist response
FetchResolves(files) ==
  /\ ~fetched
  /\ fetched' = TRUE
  /\ list' = files
  /\ IF Len(files) # 0
     THEN /\ ctxState' \in {"suspended", "running"}
          /\ Load(Num(0))
          /\ lastOp' = [op |-> "load0", from |-> idx]
     ELSE /\ nowText' = [msg |-> "No mp3 files found.", track |-> <<>>]
          /\ UNCHANGED <<idx, audioSrc, paused, ctxState, lastOp>>
  /\ UNCHANGED serverVars

\* lines 89-90: the fetch fails (the server sent no response): no handler runs
FetchRejects ==
  /\ ~fetched
  /\ fetched' = TRUE
  /\ UNCHANGED <<list, idx, nowText, audioSrc, paused, ctxState, lastOp>>
  /\ UNCHANGED serverVars

\* line 167: next()
NextTrack ==
  /\ UNCHANGED <<list, fetched, ctxState>>
  /\ Load(JsAdd(idx, Num(1)))
  /\ lastOp' = [op |-> "next", from |-> idx]
  /\ UNCHANGED serverVars

\* line 168: prev()
PrevTrack ==
  /\ UNCHANGED <<list, fetched, ctxState>>
  /\ Load(JsAdd(idx, Num(-1)))
  /\ lastOp' = [op |-> "prev", from |-> idx]
  /\ UNCHANGED serverVars

\* line 173: the playing track reaches its end, and 'ended' calls next
Ended ==
  /\ ~paused
  /\ audioSrc # <<>>
  /\ audioSrc # UNDEFINED
  /\ UNCHANGED <<list, fetched, ctxState>>
  /\ Load(JsAdd(idx, Num(1)))
  /\ lastOp' = [op |-> "ended", from |-> idx]
  /\ UNCHANGED serverVars

\* lines 169-172: toggle(); before setupEQ ran, ctx.state throws and nothing changes
Toggle ==
  /\ ctxState # "undefined"
  /\ ctxState' = "running"
  /\ paused' = ~paused
  /\ UNCHANGED <<list, idx, fetched, nowText, audioSrc, lastOp>>
  /\ UNCHANGED serverVars

\* the arrays a playlist response may hold
PlaylistArrays ==
  UNION {{JsonParse(JsonDumps(AudioFiles(listing))) : listing \in Orders(S)} :
           S \in RootConfigs}

(***************************************************************************)
(* Specifications.                                                         *)
(***************************************************************************)
PlayerStart ==
  /\ list = <<>>
  /\ idx = Num(0)
  /\ fetched = FALSE
  /\ nowText = [msg |-> "loading", track |-> <<>>]
  /\ audioSrc = <<>>
  /\ paused = TRUE
  /\ ctxState = "undefined"
  /\ lastOp = [op |-> "none", from |-> Num(0)]

ServerStart ==
  /\ pc = "check"
  /\ rootArg \in {"dir", "file", "missing"}
  /\ portFree \in BOOLEAN
  /\ cwd = "launch"
  /\ listening = FALSE
  /\ exitStatus = -1
  /\ stderr = ""
  /\ present \in (IF rootArg = "dir" THEN RootConfigs ELSE {{}})
  /\ rootState = "ok"
  /\ backlog = <<>>
  /\ conn = [c \in Clients |-> IdleConn]
  /\ hadFailure = FALSE

Init == ServerStart /\ PlayerStart

Startup == CheckRoot \/ Chdir \/ Bind \/ Interrupt

Environment ==
  \/ \E n \in Pool : CreateEntry(n)
  \/ \E n \in Pool : RemoveEntry(n)
  \/ Chmod
  \/ RemoveRoot

Serve(c) == Accept(c) \/ HandleRequest(c) \/ FinishWrite(c) \/ Disconnect(c) \/ Close(c)

\* one client, every request of the model
Next ==
  \/ Startup
  \/ Environment
  \/ \E r \in Requests : Connect("c1", r)
  \/ Serve("c1")

Spec == Init /\ [][Next]_vars

\* two clients at once, a few requests, a root that holds still
InitTwo ==
  /\ Init
  /\ rootArg = "dir"
  /\ portFree
  /\ present \in {{}, {A_MP3, B_MP3}}

NextTwo ==
  \/ Startup
  \/ \E c \in Clients, r \in FewRequests : Connect(c, r)
  \/ \E c \in Clients : Serve(c)

SpecTwo == InitTwo /\ [][NextTwo]_vars

\* the page in a browser, after a server that runs sent it
InitPlayer ==
  /\ pc = "serving"
  /\ rootArg = "dir"
  /\ portFree = TRUE
  /\ cwd = "ROOT"
  /\ listening = TRUE
  /\ exitStatus = -1
  /\ stderr = ""
  /\ present = {}
  /\ rootState = "ok"
  /\ backlog = <<>>
  /\ conn = [c \in Clients |-> IdleConn]
  /\ hadFailure = FALSE
  /\ PlayerStart

NextPlayer ==
  \/ \E files \in PlaylistArrays : FetchResolves(files)
  \/ FetchRejects
  \/ NextTrack
  \/ PrevTrack
  \/ Ended
  \/ Toggle

SpecPlayer == InitPlayer /\ [][NextPlayer]_vars


(***************************************************************************)
(* Properties.                                                             *)
(***************************************************************************)
\* the connections whose request was answered, or ended without an answer
Answered == {c \in Clients : conn[c].st \in {"writing", "done"}}
\* those of them answered from the file system as it is now
Current == {c \in Answered : ~conn[c].stale}

Elements(seq) == {seq[i] : i \in 1..Len(seq)}

\* a name that ends in '.mp3' in any mix of upper and lower case
AudioName(n) ==
  /\ Len(n) >= 4
  /\ n[Len(n) - 3] = "."
  /\ n[Len(n) - 2] \in {"m", "M"}
  /\ n[Len(n) - 1] \in {"p", "P"}
  /\ n[Len(n)] = "3"

\* C1: a GET of /playlist.json over a root that can be listed is answered 200
\* with a JSON array holding exactly the entries of the root whose name ends in
\* '.mp3' in any case, each once; for an empty root the array is [].
PlaylistListsExactlyTheAudioEntries ==
  \A c \in Current :
    (conn[c].req.target \in PlaylistTargets /\ rootState = "ok") =>
      /\ conn[c].resp.status = 200
      /\ conn[c].resp.ctype = "application/json"
      /\ conn[c].resp.body.kind = "json"
      /\ LET arr == JsonParse(conn[c].resp.body.data)
         IN  /\ Elements(arr) = {n \in present : AudioName(n)}
             /\ Len(arr) = Cardinality(Elements(arr))
      /\ (present = {} => conn[c].resp.body.data = <<"[", "]">>)

\* C1 happens: a.mp3, b.MP3 and c.txt are in the root and the playlist came back
PlaylistOfTheScenario ==
  \E c \in Current :
    /\ conn[c].st = "done"
    /\ conn[c].end = "delivered"
    /\ conn[c].req.target = T_PLAYLIST
    /\ present = {A_MP3, B_MP3, C_TXT}
    /\ Elements(JsonParse(conn[c].resp.body.data)) = {A_MP3, B_MP3}

\* the handler the dispatcher owes a target: by the decoded path before any '?'
RouteOf(target) ==
  IF target \in PlaylistTargets THEN "playlist"
  ELSE IF target \in PageTargets THEN "page"
  ELSE "static"

\* C2: every request that reaches do_GET is answered by exactly one handler, the
\* one its percent-decoded path before '?' selects: /playlist.json the playlist
\* endpoint, / the page, anything else the static file responder.
DispatchByDecodedPath ==
  \A c \in Answered :
    conn[c].resp.handler # "none" => conn[c].resp.handler = RouteOf(conn[c].req.target)

\* C2 happens: /%70laylist.json was answered by the playlist endpoint although
\* the root holds a file playlist.json
RouteBeatsFileOfTheSameName ==
  \E c \in Current :
    /\ conn[c].req.target = T_PLAYLIST_ENCODED
    /\ PLAYLIST_JSON \in present
    /\ conn[c].resp.handler = "playlist"
    /\ conn[c].resp.status = 200

RangeIsAnsweredPartial ==
  \A c \in Current :
    ( /\ conn[c].req.range # NoRange
      /\ conn[c].req.target = LoadTarget(A_MP3)
      /\ A_MP3 \in present
      /\ rootState = "ok" ) =>
      /\ conn[c].resp.status = 206
      /\ conn[c].resp.body.kind = "bytes"
      /\ conn[c].resp.body.data =
           SubSeq(ContentOf(A_MP3), conn[c].req.range.lo + 1, conn[c].req.range.hi + 1)

\* C5 as stated: every name the playlist returns is served, with the file system
\* unchanged, with status 200 and the bytes of that entry when the player asks
\* for it.
PlaylistEntriesAreServable ==
  \A c \in Current : \A n \in present :
    (IsAudio(n) /\ rootState = "ok" /\ conn[c].req.target = LoadTarget(n)) =>
      /\ conn[c].resp.status = 200
      /\ conn[c].resp.body.kind = "bytes"
      /\ conn[c].resp.body.data = ContentOf(n)

\* C6: when the root argument names no directory the script exits with status 1
\* and its error message, and never changes directory, binds or listens.
NoListenerAfterFailedRootCheck ==
  /\ rootArg # "dir" =>
       /\ ~listening
       /\ cwd = "launch"
       /\ pc \in {"check", "exited"}
       /\ (pc = "exited" => exitStatus = 1 /\ stderr = "Error: ROOT is not a directory")
  /\ stderr = "Error: ROOT is not a directory" =>
       /\ pc = "exited"
       /\ exitStatus = 1
       /\ ~listening
       /\ cwd = "launch"

\* C6 happens: the root argument names a plain file and the script has exited
ExitedOnBadRoot ==
  /\ rootArg = "file"
  /\ pc = "exited"
  /\ exitStatus = 1
  /\ ~listening

\* C7 as stated: a /playlist.json request made while the root cannot be listed
\* is answered with a 5xx response, and the server keeps running.
ListingFailureIsAnswered5xx ==
  \A c \in Current :
    (conn[c].req.target \in PlaylistTargets /\ rootState # "ok") =>
      /\ conn[c].resp.status \in 500..599
      /\ pc = "serving"

\* what a server that has handled nothing yet answers to a request now; once
\* the root is removed the handler cannot be constructed (os.getcwd raises),
\* unless it was constructed before the removal
FreshAnswers(req) ==
  IF rootState = "removed"
  THEN {Raised("none")} \cup DoGet(req.target, "ROOT")
  ELSE DoGet(req.target, "ROOT")

NoRequestWaitsForAnother ==
  \A c, d \in Clients :
    ~(c # d /\ conn[c].st = "queued" /\ conn[d].st \in {"accepted", "writing"})

\* C9, amended: requests are handled one at a time: at most one connection is
\* with a handler, and every other request in flight sits in the backlog until
\* that handler has returned.
OneRequestAtATime ==
  /\ Cardinality({c \in Clients : conn[c].st \in {"accepted", "writing"}}) <= 1
  /\ \A c \in Clients : conn[c].st = "queued" <=> c \in Elements(backlog)
  /\ Len(backlog) = Cardinality(Elements(backlog))

\* C9 happens: one client's response is being written while the other's request
\* waits in the backlog
SecondRequestWaits ==
  /\ conn["c1"].st = "writing"
  /\ conn["c2"].st = "queued"
  /\ backlog = <<"c2">>

\* C10: with a playlist of n > 0 tracks loaded, idx is an integer in 0..n-1 after
\* every next, prev and 'ended': next and 'ended' move from n-1 to 0, prev moves
\* from 0 to n-1.  With no track, load is not called by the fetch, and a next
\* or prev leaves idx NaN (a remainder by zero).
PlayerIndexStaysInRange ==
  LET n == Len(list) IN
  /\ (fetched /\ n > 0) =>
       /\ ~idx.nan
       /\ idx.val \in 0..(n - 1)
       /\ lastOp.op \in {"next", "ended"} =>
            idx.val = IF lastOp.from.val = n - 1 THEN 0 ELSE lastOp.from.val + 1
       /\ lastOp.op = "prev" =>
            idx.val = IF lastOp.from.val = 0 THEN n - 1 ELSE lastOp.from.val - 1
  /\ n = 0 =>
       /\ lastOp.op \in {"none", "next", "prev"}
       /\ lastOp.op = "none" => idx = Num(0)
       /\ lastOp.op \in {"next", "prev"} => idx.nan

\* C10 happens: prev from track 0 of three went to track 2
PrevWrapped ==
  /\ fetched
  /\ Len(list) = 3
  /\ lastOp = [op |-> "prev", from |-> Num(0)]
  /\ idx = Num(2)

=============================================================================
